---- MODULE Spec2Model ----
(***************************************************************************)
(* Reference-counted ownership runtime: SharedPtr / WeakPtr over a shared  *)
(* ControlBlockBase (ControlBlockPointer or ControlBlockHolder), with the  *)
(* EnableSharedFromThis back-reference, and the exclusive handle UniquePtr. *)
(* Spec and UniqueSpec are single-threaded: every public operation is one  *)
(* atomic step.  RaceSpec runs threads over one control block with every   *)
(* counter read and write as a step of its own.                            *)
(***************************************************************************)
EXTENDS Integers, FiniteSets, Sequences, Bags, TLC

\* ------------------------------------------------------------------ bounds
MaxBlocks == 2          \* control blocks that can ever be allocated
NumStrong == 3          \* strong handles that can be alive at once
NumWeak == 2            \* weak handles of the client that can be alive at once
MaxRes == 3             \* resources that UniquePtr handles can ever adopt
NumUnique == 2          \* UniquePtr handles that can be alive at once
MaxOps == 2             \* handle operations each thread of RaceSpec performs

BIds == 1..MaxBlocks

\* ------------------------------------------------------------- addresses
Null      == 0
ObjAddr(b) == b                \* address of the payload that block b manages
FieldAddr == MaxBlocks + 1     \* an address that is no payload's own address
AliasPtrs == {FieldAddr}

VARIABLES
    sp,       \* the live strong handles: a bag of [ptr_, block_]
    wp,       \* the live weak handles of the client: a bag of [ptr_, block_]
    heap,     \* control blocks and their payloads
    status,   \* "running" or "crashed"
    last,     \* the call just performed, or Idle
    up,       \* the live UniquePtr handles: a bag of held pointers
    res,      \* the resources UniquePtr handles adopt
    cb,       \* RaceSpec: the one control block the threads share
    thr,      \* RaceSpec: each thread's handles and its place in an operation
    raced     \* RaceSpec: an operation began while another was under way

vars == <<sp, wp, heap, status, last, up, res, cb, thr, raced>>

\* ------------------------------------------------------------ handle values
Handle(p, b) == [ptr_ |-> p, block_ |-> b]
EmptyHandle == Handle(Null, 0)

One(x) == SetToBag({x})
\* x and y are two different handles of bag B (they may hold equal values)
Distinct(B, x, y) ==
    /\ BagIn(x, B) /\ BagIn(y, B)
    /\ (x = y => CopiesIn(x, B) >= 2)
\* handle x of bag B takes value v
Put(B, x, v) == (B (-) One(x)) (+) One(v)

EmptyWeakField == EmptyHandle

UnallocBlock ==
    [state |-> "unalloc", kind |-> "none", strong_counter |-> 0,
     weak_counter |-> 0, esft |-> FALSE, obj |-> "none",
     weak_this |-> EmptyWeakField, via |-> "-",
     nAlloc |-> 0, nDeletePointer |-> 0, nObjFree |-> 0, nDeleteBlock |-> 0]

\* ------------------------------------------------------ ControlBlockBase
GetStrongCounter(h, b) == h[b].strong_counter
GetWeakCounter(h, b) == h[b].weak_counter
IncrementStrongCounter(h, b) == [h EXCEPT ![b].strong_counter = @ + 1]
DecrementStrongCounter(h, b) == [h EXCEPT ![b].strong_counter = @ - 1]
IncrementWeakCounter(h, b) == [h EXCEPT ![b].weak_counter = @ + 1]
DecrementWeakCounter(h, b) == [h EXCEPT ![b].weak_counter = @ - 1]

\* delete block_ : runs the (empty) block destructor and frees the block
DeleteBlock(h, b) ==
    [h EXCEPT ![b].state = "freed", ![b].nDeleteBlock = @ + 1]

\* ControlBlockPointer(T* ptr): strong 1, weak 0, payload allocated apart.
\* via notes, for a self-observing payload, which operation adopted it: a
\* constructor ("ctor") or Reset(ptr) ("Reset").
ControlBlockPointer(esft, isNull, via) ==
    [state |-> "live", kind |-> "pointer", strong_counter |-> 1,
     weak_counter |-> 0, esft |-> esft,
     obj |-> IF isNull THEN "none" ELSE "alive",
     weak_this |-> EmptyWeakField, via |-> IF esft THEN via ELSE "-",
     nAlloc |-> IF isNull THEN 1 ELSE 2,
     nDeletePointer |-> 0, nObjFree |-> 0, nDeleteBlock |-> 0]

\* ControlBlockHolder(args...): strong 1, payload built inside the block
ControlBlockHolder(esft) ==
    [state |-> "live", kind |-> "holder", strong_counter |-> 1,
     weak_counter |-> 0, esft |-> esft, obj |-> "alive",
     weak_this |-> EmptyWeakField, via |-> IF esft THEN "ctor" ELSE "-",
     nAlloc |-> 1, nDeletePointer |-> 0, nObjFree |-> 0, nDeleteBlock |-> 0]

\* ---------------------------------------------------------------- WeakPtr
IncrementBlockWeakCounter(h, b) ==
    IF b = 0 THEN h ELSE IncrementWeakCounter(h, b)

\* fault: the last weak reference is counted down and the block never freed
DecrementBlockWeakCounterNoFree(h, b) ==
    IF b = 0 THEN h
    ELSE IF GetStrongCounter(h, b) = 0 /\ GetWeakCounter(h, b) < 1
         THEN DeleteBlock(h, b)
         ELSE DecrementWeakCounter(h, b)

DecrementBlockWeakCounter(h, b) ==
    IF b = 0 THEN h
    ELSE IF GetStrongCounter(h, b) = 0 /\ GetWeakCounter(h, b) <= 1
         THEN DeleteBlock(h, b)
         ELSE DecrementWeakCounter(h, b)

\* WeakPtr::UseCount / Expired on handle value x
WeakUseCount(h, x) == IF x.block_ = 0 THEN 0 ELSE GetStrongCounter(h, x.block_)
Expired(h, x) == x.block_ = 0 \/ GetStrongCounter(h, x.block_) = 0

\* ------------------------------------------------- payload destruction
\* ~T() of the payload of block b: a self-observing payload destroys its
\* weak_this member, which releases one weak reference.
PayloadDestructor(h, b) ==
    LET h1 == [h EXCEPT ![b].obj = "destroyed"]
    IN IF h[b].esft
       THEN [DecrementBlockWeakCounter(h1, h1[b].weak_this.block_)
                EXCEPT ![b].weak_this = EmptyWeakField]
       ELSE h1

\* fault: the in-place payload is deallocated like a separate one
DeletePointerAlwaysDelete(h, b) ==
    LET h1 == [h EXCEPT ![b].nDeletePointer = @ + 1]
    IN IF h1[b].obj # "alive" THEN h1
       ELSE [PayloadDestructor(h1, b) EXCEPT ![b].nObjFree = @ + 1]

\* ControlBlockPointer::DeletePointer (delete ptr_) and
\* ControlBlockHolder::DeletePointer (GetPointer()->~T())
DeletePointer(h, b) ==
    LET h1 == [h EXCEPT ![b].nDeletePointer = @ + 1]
    IN IF h1[b].obj # "alive" THEN h1
       ELSE IF h1[b].kind = "pointer"
            THEN [PayloadDestructor(h1, b) EXCEPT ![b].nObjFree = @ + 1]
            ELSE PayloadDestructor(h1, b)

\* -------------------------------------------------------------- SharedPtr
\* fault: a new strong reference is not counted
IncrementBlockStrongCounterLost(h, b) == h

IncrementBlockStrongCounter(h, b) ==
    IF b = 0 THEN h ELSE IncrementStrongCounter(h, b)

\* fault: no return after the strong == 1 && weak == 0 branch
DecrementBlockStrongCounterFallThrough(h, b) ==
    IF b = 0 THEN h
    ELSE LET h0 == IF GetStrongCounter(h, b) = 1 /\ GetWeakCounter(h, b) = 0
                   THEN DeleteBlock(DeletePointer(h, b), b)
                   ELSE h
             h1 == DecrementStrongCounter(h0, b)
         IN IF GetStrongCounter(h1, b) <= 0
            THEN DeletePointer(h1, b)
            ELSE h1

\* fault: the last strong release frees the block whatever weak_counter is
DecrementBlockStrongCounterIgnoresWeak(h, b) ==
    IF b = 0 THEN h
    ELSE IF GetStrongCounter(h, b) = 1
         THEN DeleteBlock(DeletePointer(h, b), b)
         ELSE DecrementStrongCounter(h, b)

DecrementBlockStrongCounter(h, b) ==
    IF b = 0 THEN h
    ELSE IF GetStrongCounter(h, b) = 1 /\ GetWeakCounter(h, b) = 0
         THEN DeleteBlock(DeletePointer(h, b), b)
         ELSE LET h1 == DecrementStrongCounter(h, b)
              IN IF GetStrongCounter(h1, b) <= 0
                 THEN DeletePointer(h1, b)
                 ELSE h1

\* SharedPtr::UseCount / Get / operator bool on handle value x
UseCount(h, x) == IF x.block_ = 0 THEN 0 ELSE GetStrongCounter(h, x.block_)
Get(x) == x.ptr_
Bool(x) == x.ptr_ # Null

\* fault: the installed weak_this is counted as an owner
InstallWeakThisCountsStrong(h, b, p) ==
    LET h1 == IncrementBlockWeakCounter(h, b)
        h2 == DecrementBlockWeakCounter(h1, h1[b].weak_this.block_)
    IN [IncrementStrongCounter(h2, b) EXCEPT ![b].weak_this = Handle(p, b)]

\* fault: weak_this is installed without the payload's address
InstallWeakThisNoPointer(h, b, p) ==
    LET h1 == IncrementBlockWeakCounter(h, b)
        h2 == DecrementBlockWeakCounter(h1, h1[b].weak_this.block_)
    IN [h2 EXCEPT ![b].weak_this = Handle(Null, b)]

\* ptr->weak_this = *this : demote *this into a temporary (weak + 1), move-
\* assign it into the payload's field (release of the field's old block),
\* destroy the emptied temporary.
InstallWeakThis(h, b, p) ==
    LET h1 == IncrementBlockWeakCounter(h, b)
        h2 == DecrementBlockWeakCounter(h1, h1[b].weak_this.block_)
    IN [h2 EXCEPT ![b].weak_this = Handle(p, b)]

\* ------------------------------------------------------------------ state
FreshBlocks == {b \in BIds : heap[b].state = "unalloc"}
HasFresh == FreshBlocks # {}
NewBlock == CHOOSE b \in FreshBlocks : \A c \in FreshBlocks : b <= c

Strongs == BagToSet(sp)
Weaks == BagToSet(wp)
RoomStrong == BagCardinality(sp) < NumStrong
RoomWeak == BagCardinality(wp) < NumWeak

\* The record of a call: operation, the handle it was given first (this, or
\* the source of a constructor) as it was before the call, the other
\* argument (a handle, a pointer or the block concerned), and the outcome.
\* It is kept until the call is forgotten, before the next call.
Idle == [op |-> "idle"]
Op(name, x, y, r) == [op |-> name, x |-> x, y |-> y, res |-> r]

\* a call can start: the program runs and the last call has been forgotten
\* (the guard of every call in Next)
Ready == status = "running" /\ last = Idle

InitState ==
    /\ sp = EmptyBag
    /\ wp = EmptyBag
    /\ heap = [b \in BIds |-> UnallocBlock]
    /\ status = "running"

RIds == 1..MaxRes

\* a resource: whether it was allocated, how often the deletion policy was
\* given it, and whether Release() handed it back to the caller
UnallocRes == [state |-> "unalloc", nDelete |-> 0, released |-> FALSE]
LiveRes == [state |-> "live", nDelete |-> 0, released |-> FALSE]

UniqueInitState ==
    /\ up = EmptyBag
    /\ res = [r \in RIds |-> UnallocRes]

\* RaceSpec is about two threads
Threads == {1, 2}

\* a thread: pc is "idle" or the line of the operation it is to run next,
\* tmp the counter value it has loaded, strong / weak the handles it owns
IdleThread(ns, nw) ==
    [pc |-> "idle", tmp |-> 0, strong |-> ns, weak |-> nw, ops |-> 0]

RECURSIVE SumOver(_, _)
SumOver(f, S) ==
    IF S = {} THEN 0
    ELSE LET t == CHOOSE u \in S : TRUE IN f[t] + SumOver(f, S \ {t})
HeldStrong == SumOver([t \in Threads |-> thr[t].strong], Threads)
HeldWeak == SumOver([t \in Threads |-> thr[t].weak], Threads)

\* the shared block as single-threaded code leaves it for ns strong and nw
\* weak handles
SharedBlock(ns, nw) ==
    [state |-> "live", strong_counter |-> ns, weak_counter |-> nw,
     obj |-> IF ns > 0 THEN "alive" ELSE "destroyed",
     nDeletePointer |-> IF ns > 0 THEN 0 ELSE 1,
     nDeleteBlock |-> 0, usedAfterFree |-> FALSE]

\* Spec and UniqueSpec have no threads at work
NoRaceState ==
    /\ thr = [t \in Threads |-> IdleThread(0, 0)]
    /\ cb = SharedBlock(0, 0)
    /\ raced = FALSE

\* RaceSpec: every thread owns at most one strong and one weak handle of
\* the block, and the block has at least one handle
RaceInitState ==
    /\ \E ns \in [Threads -> 0..1], nw \in [Threads -> 0..1] :
          /\ thr = [t \in Threads |-> IdleThread(ns[t], nw[t])]
          /\ SumOver(ns, Threads) + SumOver(nw, Threads) >= 1
          /\ cb = SharedBlock(SumOver(ns, Threads), SumOver(nw, Threads))
    /\ raced = FALSE

Init == InitState /\ last = Idle /\ UniqueInitState /\ NoRaceState

RaceInit == InitState /\ last = Idle /\ UniqueInitState /\ RaceInitState

\* ------------------------------------------------- SharedPtr constructors
\* SharedPtr() / SharedPtr(nullptr_t)
SharedPtrDefault ==
    /\ RoomStrong
    /\ sp' = sp (+) One(EmptyHandle)
    /\ last' = Op("SharedPtrDefault", EmptyHandle, EmptyHandle, "ok")
    /\ UNCHANGED <<wp, heap, status>>

\* SharedPtr(T* ptr) / SharedPtr(U* ptr); a null ptr only for a payload
\* type without weak_this (the install would write through it)
SharedPtrFromRaw(esft, isNull) ==
    /\ RoomStrong
    /\ HasFresh
    /\ ~(esft /\ isNull)
    /\ LET b == NewBlock
           p == IF isNull THEN Null ELSE ObjAddr(b)
           h1 == [heap EXCEPT ![b] = ControlBlockPointer(esft, isNull, "ctor")]
       IN /\ heap' = IF esft THEN InstallWeakThis(h1, b, p) ELSE h1
          /\ sp' = sp (+) One(Handle(p, b))
          /\ last' = Op("SharedPtrFromRaw", EmptyHandle, b, "ok")
    /\ UNCHANGED <<wp, status>>

\* MakeShared<T>(args...) -> SharedPtr(ControlBlockHolder<U>* block)
MakeShared(esft) ==
    /\ RoomStrong
    /\ HasFresh
    /\ LET b == NewBlock
           p == ObjAddr(b)
           h1 == [heap EXCEPT ![b] = ControlBlockHolder(esft)]
       IN /\ heap' = IF esft THEN InstallWeakThis(h1, b, p) ELSE h1
          /\ sp' = sp (+) One(Handle(p, b))
          /\ last' = Op("MakeShared", EmptyHandle, b, "ok")
    /\ UNCHANGED <<wp, status>>

\* SharedPtr(const SharedPtr& other) / SharedPtr(const SharedPtr<U>& other)
SharedPtrCopy(o) ==
    /\ RoomStrong /\ BagIn(o, sp)
    /\ sp' = sp (+) One(Handle(o.ptr_, o.block_))
    /\ heap' = IncrementBlockStrongCounter(heap, o.block_)
    /\ last' = Op("SharedPtrCopy", o, o, "ok")
    /\ UNCHANGED <<wp, status>>

\* fault: the move constructor counts the new handle like a copy
SharedPtrMoveCounts(o) ==
    /\ RoomStrong /\ BagIn(o, sp)
    /\ sp' = Put(sp, o, EmptyHandle) (+) One(Handle(o.ptr_, o.block_))
    /\ heap' = IncrementBlockStrongCounter(heap, o.block_)
    /\ last' = Op("SharedPtrMove", o, o, "ok")
    /\ UNCHANGED <<wp, status>>

\* SharedPtr(SharedPtr&& other) / SharedPtr(SharedPtr<U>&& other)
SharedPtrMove(o) ==
    /\ RoomStrong /\ BagIn(o, sp)
    /\ sp' = Put(sp, o, EmptyHandle) (+) One(Handle(o.ptr_, o.block_))
    /\ last' = Op("SharedPtrMove", o, o, "ok")
    /\ UNCHANGED <<wp, heap, status>>

\* fault: the aliasing constructor does not count the new handle
SharedPtrAliasNoCount(o, q) ==
    /\ RoomStrong /\ BagIn(o, sp)
    /\ sp' = sp (+) One(Handle(q, o.block_))
    /\ last' = Op("SharedPtrAlias", o, q, "ok")
    /\ UNCHANGED <<wp, heap, status>>

\* SharedPtr(const SharedPtr<U>& other, T* ptr)
SharedPtrAlias(o, q) ==
    /\ RoomStrong /\ BagIn(o, sp)
    /\ sp' = sp (+) One(Handle(q, o.block_))
    /\ heap' = IncrementBlockStrongCounter(heap, o.block_)
    /\ last' = Op("SharedPtrAlias", o, q, "ok")
    /\ UNCHANGED <<wp, status>>

\* fault: the promotion does not test strong_counter
PromoteOutcomesNoThrow(h, x) ==
    IF x.block_ = 0
    THEN { <<"crash", EmptyBag, h>> }
    ELSE { <<"ok", One(Handle(x.ptr_, x.block_)),
             IncrementStrongCounter(h, x.block_)>> }

\* explicit SharedPtr(const WeakPtr<T>& other).  h is the heap, x the weak
\* handle; a result is <<outcome, the constructed handle if any, heap>>.
\* With other.block_ == nullptr the first line reads through a null
\* pointer: the build may fault, or read some value and go on (0: throw;
\* otherwise the increment through the null block_ faults or is dropped).
PromoteOutcomes(h, x) ==
    IF x.block_ = 0
    THEN { <<"crash", EmptyBag, h>>,
           <<"BadWeakPtr", EmptyBag, h>>,
           <<"ok", One(Handle(x.ptr_, 0)), h>> }
    ELSE IF GetStrongCounter(h, x.block_) = 0
         THEN { <<"BadWeakPtr", EmptyBag, h>> }
         ELSE { <<"ok", One(Handle(x.ptr_, x.block_)),
                  IncrementStrongCounter(h, x.block_)>> }

SharedPtrPromote(w) ==
    /\ RoomStrong /\ BagIn(w, wp)
    /\ \E r \in PromoteOutcomes(heap, w) :
          /\ sp' = sp (+) r[2]
          /\ heap' = r[3]
          /\ status' = IF r[1] = "crash" THEN "crashed" ELSE status
          /\ last' = Op("SharedPtrPromote", w, w, r[1])
    /\ UNCHANGED wp

\* ---------------------------------------------------- SharedPtr operator=
\* operator=(const SharedPtr& other); self: this == &other
SharedPtrAssignCopy(t, o, self) ==
    /\ IF self
       THEN /\ t = o /\ BagIn(t, sp)
            /\ UNCHANGED <<sp, heap>>
       ELSE /\ Distinct(sp, t, o)
            /\ LET h1 == DecrementBlockStrongCounter(heap, t.block_)
               IN heap' = IncrementBlockStrongCounter(h1, o.block_)
            /\ sp' = Put(sp, t, Handle(o.ptr_, o.block_))
    /\ last' = Op("SharedPtrAssignCopy", t, o, IF self THEN "self" ELSE "ok")
    /\ UNCHANGED <<wp, status>>

\* operator=(SharedPtr&& other); self: this == &other
SharedPtrAssignMove(t, o, self) ==
    /\ IF self
       THEN /\ t = o /\ BagIn(t, sp)
            /\ UNCHANGED <<sp, heap>>
       ELSE /\ Distinct(sp, t, o)
            /\ heap' = DecrementBlockStrongCounter(heap, t.block_)
            /\ sp' = Put(Put(sp, t, Handle(o.ptr_, o.block_)), o, EmptyHandle)
    /\ last' = Op("SharedPtrAssignMove", t, o, IF self THEN "self" ELSE "ok")
    /\ UNCHANGED <<wp, status>>

\* ~SharedPtr()
SharedPtrDestroy(t) ==
    /\ BagIn(t, sp)
    /\ heap' = DecrementBlockStrongCounter(heap, t.block_)
    /\ sp' = sp (-) One(t)
    /\ last' = Op("SharedPtrDestroy", t, EmptyHandle, "ok")
    /\ UNCHANGED <<wp, status>>

\* fault: Reset() drops the block and keeps the cached pointer
SharedPtrResetKeepsPointer(t) ==
    /\ BagIn(t, sp)
    /\ heap' = DecrementBlockStrongCounter(heap, t.block_)
    /\ sp' = Put(sp, t, Handle(t.ptr_, 0))
    /\ last' = Op("SharedPtrReset", t, EmptyHandle, "ok")
    /\ UNCHANGED <<wp, status>>

\* Reset()
SharedPtrReset(t) ==
    /\ BagIn(t, sp)
    /\ heap' = DecrementBlockStrongCounter(heap, t.block_)
    /\ sp' = Put(sp, t, EmptyHandle)
    /\ last' = Op("SharedPtrReset", t, EmptyHandle, "ok")
    /\ UNCHANGED <<wp, status>>

\* Reset(T* ptr) / Reset(U* ptr): weak_this of the payload is not touched
SharedPtrResetPtr(t, esft, isNull) ==
    /\ BagIn(t, sp)
    /\ HasFresh
    /\ ~(esft /\ isNull)
    /\ LET b == NewBlock
           p == IF isNull THEN Null ELSE ObjAddr(b)
           h1 == DecrementBlockStrongCounter(heap, t.block_)
       IN /\ heap' = [h1 EXCEPT ![b] = ControlBlockPointer(esft, isNull, "Reset")]
          /\ sp' = Put(sp, t, Handle(p, b))
          /\ last' = Op("SharedPtrResetPtr", t, b, "ok")
    /\ UNCHANGED <<wp, status>>

\* Swap(SharedPtr& other): the two handles exchange ptr_ and block_
SharedPtrSwap(t, o) ==
    /\ BagIn(t, sp) /\ BagIn(o, sp)
    /\ sp' = Put(Put(sp, t, o), o, t)
    /\ last' = Op("SharedPtrSwap", t, o, "ok")
    /\ UNCHANGED <<wp, heap, status>>

\* ------------------------------------------------------ WeakPtr operations
\* WeakPtr()
WeakPtrDefault ==
    /\ RoomWeak
    /\ wp' = wp (+) One(EmptyHandle)
    /\ last' = Op("WeakPtrDefault", EmptyHandle, EmptyHandle, "ok")
    /\ UNCHANGED <<sp, heap, status>>

\* WeakPtr(const WeakPtr& other) / WeakPtr(const WeakPtr<U>& other)
WeakPtrCopy(o) ==
    /\ RoomWeak /\ BagIn(o, wp)
    /\ wp' = wp (+) One(Handle(o.ptr_, o.block_))
    /\ heap' = IncrementBlockWeakCounter(heap, o.block_)
    /\ last' = Op("WeakPtrCopy", o, o, "ok")
    /\ UNCHANGED <<sp, status>>

\* WeakPtr(WeakPtr&& other)
WeakPtrMove(o) ==
    /\ RoomWeak /\ BagIn(o, wp)
    /\ wp' = Put(wp, o, EmptyHandle) (+) One(Handle(o.ptr_, o.block_))
    /\ last' = Op("WeakPtrMove", o, o, "ok")
    /\ UNCHANGED <<sp, heap, status>>

\* fault: the demotion counts a strong reference
WeakPtrDemoteCountsStrong(s) ==
    /\ RoomWeak /\ BagIn(s, sp)
    /\ wp' = wp (+) One(Handle(s.ptr_, s.block_))
    /\ heap' = IncrementBlockStrongCounter(heap, s.block_)
    /\ last' = Op("WeakPtrDemote", s, s, "ok")
    /\ UNCHANGED <<sp, status>>

\* WeakPtr(const SharedPtr<U>& other)
WeakPtrDemote(s) ==
    /\ RoomWeak /\ BagIn(s, sp)
    /\ wp' = wp (+) One(Handle(s.ptr_, s.block_))
    /\ heap' = IncrementBlockWeakCounter(heap, s.block_)
    /\ last' = Op("WeakPtrDemote", s, s, "ok")
    /\ UNCHANGED <<sp, status>>

\* operator=(const WeakPtr& other); self: this == &other
WeakPtrAssignCopy(t, o, self) ==
    /\ IF self
       THEN /\ t = o /\ BagIn(t, wp)
            /\ UNCHANGED <<wp, heap>>
       ELSE /\ Distinct(wp, t, o)
            /\ LET h1 == DecrementBlockWeakCounter(heap, t.block_)
               IN heap' = IncrementBlockWeakCounter(h1, o.block_)
            /\ wp' = Put(wp, t, Handle(o.ptr_, o.block_))
    /\ last' = Op("WeakPtrAssignCopy", t, o, IF self THEN "self" ELSE "ok")
    /\ UNCHANGED <<sp, status>>

\* operator=(WeakPtr&& other): there is no self-assignment test; the
\* target is released and nulled, then swapped with other, which for
\* self (this == &other) is the nulled target itself.
WeakPtrAssignMove(t, o, self) ==
    /\ IF self THEN t = o /\ BagIn(t, wp) ELSE Distinct(wp, t, o)
    /\ heap' = DecrementBlockWeakCounter(heap, t.block_)
    /\ wp' = IF self
             THEN Put(wp, t, EmptyHandle)
             ELSE Put(Put(wp, t, Handle(o.ptr_, o.block_)), o, EmptyHandle)
    /\ last' = Op("WeakPtrAssignMove", t, o, IF self THEN "self" ELSE "ok")
    /\ UNCHANGED <<sp, status>>

\* ~WeakPtr()
WeakPtrDestroy(t) ==
    /\ BagIn(t, wp)
    /\ heap' = DecrementBlockWeakCounter(heap, t.block_)
    /\ wp' = wp (-) One(t)
    /\ last' = Op("WeakPtrDestroy", t, EmptyHandle, "ok")
    /\ UNCHANGED <<sp, status>>

\* WeakPtr::Reset()
WeakPtrReset(t) ==
    /\ BagIn(t, wp)
    /\ heap' = DecrementBlockWeakCounter(heap, t.block_)
    /\ wp' = Put(wp, t, EmptyHandle)
    /\ last' = Op("WeakPtrReset", t, EmptyHandle, "ok")
    /\ UNCHANGED <<sp, status>>

\* WeakPtr::Swap(WeakPtr& other)
WeakPtrSwap(t, o) ==
    /\ BagIn(t, wp) /\ BagIn(o, wp)
    /\ wp' = Put(Put(wp, t, o), o, t)
    /\ last' = Op("WeakPtrSwap", t, o, "ok")
    /\ UNCHANGED <<sp, heap, status>>

\* fault: Lock() promotes without testing UseCount()
LockOutcomesNoTest(h, x) == PromoteOutcomes(h, x)

\* WeakPtr::Lock() on weak handle x: <<outcome, returned handle, heap>>
LockOutcomes(h, x) ==
    IF WeakUseCount(h, x) = 0
    THEN { <<"empty", One(EmptyHandle), h>> }
    ELSE PromoteOutcomes(h, x)

\* the handle Lock() returns becomes a new strong handle of the client
Lock(w) ==
    /\ RoomStrong /\ BagIn(w, wp)
    /\ \E r \in LockOutcomes(heap, w) :
          /\ sp' = sp (+) r[2]
          /\ heap' = r[3]
          /\ status' = IF r[1] = "crash" THEN "crashed" ELSE status
          /\ last' = Op("Lock", w, w, r[1])
    /\ UNCHANGED wp

\* ---------------------------------------------------- EnableSharedFromThis
\* the payloads on which a member function can be called
SelfObserving == {b \in BIds : heap[b].obj = "alive" /\ heap[b].esft}

\* SharedFromThis(): SharedPtr<T>(weak_this)
SharedFromThis(b) ==
    /\ b \in SelfObserving /\ RoomStrong
    /\ \E r \in PromoteOutcomes(heap, heap[b].weak_this) :
          /\ sp' = sp (+) r[2]
          /\ heap' = r[3]
          /\ status' = IF r[1] = "crash" THEN "crashed" ELSE status
          /\ last' = Op("SharedFromThis", heap[b].weak_this, b, r[1])
    /\ UNCHANGED wp

\* WeakFromThis(): a copy of weak_this
WeakFromThis(b) ==
    /\ b \in SelfObserving /\ RoomWeak
    /\ wp' = wp (+) One(heap[b].weak_this)
    /\ heap' = IncrementBlockWeakCounter(heap, heap[b].weak_this.block_)
    /\ last' = Op("WeakFromThis", heap[b].weak_this, b, "ok")
    /\ UNCHANGED <<sp, status>>

\* ---------------------------------------------------------------- UniquePtr
\* UniquePtrDeleter::operator()(T* ptr): delete ptr / delete[] ptr; nothing
\* for a null ptr
UniquePtrDeleter(r, p) ==
    IF p = Null THEN r
    ELSE [r EXCEPT ![p].nDelete = @ + 1, ![p].state = "deleted"]

FreshRes == {r \in RIds : res[r].state = "unalloc"}
NewRes == CHOOSE r \in FreshRes : \A c \in FreshRes : r <= c
Uniques == BagToSet(up)
RoomUnique == BagCardinality(up) < NumUnique
\* the raw pointers a caller passes: null, or a resource just allocated
RawPtrs == {Null} \cup (IF FreshRes = {} THEN {} ELSE {NewRes})
Adopt(r, p) == IF p = Null THEN r ELSE [r EXCEPT ![p] = LiveRes]

\* The record of a UniquePtr call: x is the pointer this held before the
\* call, y the argument (the other handle's pointer, or the new pointer),
\* ret the pointer returned; called tells whether the deletion policy was
\* invoked, del is the pointer it was given and seen what Get() of this
\* returned while it ran.
UOp(name, x, y, ret, called, del, seen) ==
    [op |-> name, x |-> x, y |-> y, ret |-> ret,
     called |-> called, del |-> del, seen |-> seen]

\* explicit UniquePtr(T* ptr = nullptr) / UniquePtr(T* ptr, Deleter deleter)
UniquePtrFromRaw(p) ==
    /\ RoomUnique
    /\ up' = up (+) One(p)
    /\ res' = Adopt(res, p)
    /\ last' = UOp("UniquePtrFromRaw", Null, p, Null, FALSE, Null, Null)

\* UniquePtr(UniquePtr<OtherType, OtherDeleter>&& other): other.Release()
UniquePtrMove(o) ==
    /\ RoomUnique /\ BagIn(o, up)
    /\ up' = Put(up, o, Null) (+) One(o)
    /\ res' = res
    /\ last' = UOp("UniquePtrMove", Null, o, Null, FALSE, Null, Null)

\* fault: the move assignment leaves the source holding its pointer
UniquePtrAssignMoveKeepsSource(t, o, self) ==
    /\ IF self THEN t = o /\ BagIn(t, up) ELSE Distinct(up, t, o)
    /\ IF t = o
       THEN /\ UNCHANGED <<up, res>>
            /\ last' = UOp("UniquePtrAssignMove", t, o, Null, FALSE, Null, Null)
       ELSE /\ res' = UniquePtrDeleter(res, t)
            /\ up' = Put(up, t, o)
            /\ last' = UOp("UniquePtrAssignMove", t, o, Null, TRUE, t, t)

\* operator=(UniquePtr<OtherType, OtherDeleter>&& other); self: this is
\* other.  Nothing happens when both hold the same pointer.
UniquePtrAssignMove(t, o, self) ==
    /\ IF self THEN t = o /\ BagIn(t, up) ELSE Distinct(up, t, o)
    /\ IF t = o
       THEN /\ UNCHANGED <<up, res>>
            /\ last' = UOp("UniquePtrAssignMove", t, o, Null, FALSE, Null, Null)
       ELSE /\ res' = UniquePtrDeleter(res, t)
            /\ up' = Put(Put(up, t, o), o, Null)
            /\ last' = UOp("UniquePtrAssignMove", t, o, Null, TRUE, t, t)

\* operator=(std::nullptr_t)
UniquePtrAssignNull(t) ==
    /\ BagIn(t, up)
    /\ res' = UniquePtrDeleter(res, t)
    /\ up' = Put(up, t, Null)
    /\ last' = UOp("UniquePtrAssignNull", t, Null, Null, TRUE, t, t)

\* ~UniquePtr()
UniquePtrDestroy(t) ==
    /\ BagIn(t, up)
    /\ res' = UniquePtrDeleter(res, t)
    /\ up' = up (-) One(t)
    /\ last' = UOp("UniquePtrDestroy", t, Null, Null, TRUE, t, t)

\* fault: Release() returns the pointer and goes on holding it
UniquePtrReleaseKeepsPointer(t) ==
    /\ BagIn(t, up)
    /\ up' = up
    /\ res' = IF t = Null THEN res ELSE [res EXCEPT ![t].released = TRUE]
    /\ last' = UOp("UniquePtrRelease", t, Null, t, FALSE, Null, Null)

\* Release(): the caller gets the pointer; released notes that
UniquePtrRelease(t) ==
    /\ BagIn(t, up)
    /\ up' = Put(up, t, Null)
    /\ res' = IF t = Null THEN res ELSE [res EXCEPT ![t].released = TRUE]
    /\ last' = UOp("UniquePtrRelease", t, Null, t, FALSE, Null, Null)

\* fault: Reset gives the old pointer to the deletion policy before it
\* stores the new one
UniquePtrResetDeletesFirst(t, p) ==
    /\ BagIn(t, up)
    /\ up' = Put(up, t, p)
    /\ res' = Adopt(UniquePtrDeleter(res, t), p)
    /\ last' = UOp("UniquePtrReset", t, p, Null, TRUE, t, t)

\* Reset(T* ptr = nullptr): the new pointer is stored, then the deletion
\* policy is given the old one
UniquePtrReset(t, p) ==
    /\ BagIn(t, up)
    /\ up' = Put(up, t, p)
    /\ res' = UniquePtrDeleter(Adopt(res, p), t)
    /\ last' = UOp("UniquePtrReset", t, p, Null, TRUE, t, p)

\* Swap(UniquePtr& other)
UniquePtrSwap(t, o) ==
    /\ BagIn(t, up) /\ BagIn(o, up)
    /\ up' = Put(Put(up, t, o), o, t)
    /\ res' = res
    /\ last' = UOp("UniquePtrSwap", t, o, Null, FALSE, Null, Null)

\* ------------------------------------------- threads on one control block
\* Each thread runs handle operations on handles of its own; the handles of
\* all threads share cb.  A line that loads, compares or stores a counter
\* is a step.  A step on the block after delete block_ uses freed memory:
\* it goes on with what the memory holds (usedAfterFree notes it) or the
\* thread faults (Fault).
At(t, l) == status = "running" /\ thr[t].pc = l
Touched(c) == [c EXCEPT !.usedAfterFree = @ \/ c.state = "freed"]

\* thread t begins an operation at line l
Begin(t, l) ==
    /\ At(t, "idle") /\ thr[t].ops < MaxOps
    /\ raced' = (raced \/ \E u \in Threads \ {t} : thr[u].pc # "idle")
    /\ UNCHANGED <<cb, status>>

\* SharedPtr(const SharedPtr&) on a strong handle of t
CopyStrongBegin(t) ==
    /\ Begin(t, "IncStrongLoad") /\ thr[t].strong >= 1
    /\ thr' = [thr EXCEPT ![t].pc = "IncStrongLoad", ![t].ops = @ + 1]

\* ++strong_counter: the load
IncStrongLoad(t) ==
    /\ At(t, "IncStrongLoad")
    /\ thr' = [thr EXCEPT ![t].pc = "IncStrongStore",
                          ![t].tmp = cb.strong_counter]
    /\ cb' = Touched(cb)
    /\ UNCHANGED <<status, raced>>

\* ++strong_counter: the store; the copy is a new handle of t
IncStrongStore(t) ==
    /\ At(t, "IncStrongStore")
    /\ cb' = [Touched(cb) EXCEPT !.strong_counter = thr[t].tmp + 1]
    /\ thr' = [thr EXCEPT ![t].pc = "idle", ![t].strong = @ + 1]
    /\ UNCHANGED <<status, raced>>

\* WeakPtr(const WeakPtr&) / WeakPtr(const SharedPtr<U>&) on a handle of t
CopyWeakBegin(t) ==
    /\ Begin(t, "IncWeakLoad") /\ thr[t].strong + thr[t].weak >= 1
    /\ thr' = [thr EXCEPT ![t].pc = "IncWeakLoad", ![t].ops = @ + 1]

\* ++weak_counter: the load
IncWeakLoad(t) ==
    /\ At(t, "IncWeakLoad")
    /\ thr' = [thr EXCEPT ![t].pc = "IncWeakStore",
                          ![t].tmp = cb.weak_counter]
    /\ cb' = Touched(cb)
    /\ UNCHANGED <<status, raced>>

\* ++weak_counter: the store
IncWeakStore(t) ==
    /\ At(t, "IncWeakStore")
    /\ cb' = [Touched(cb) EXCEPT !.weak_counter = thr[t].tmp + 1]
    /\ thr' = [thr EXCEPT ![t].pc = "idle", ![t].weak = @ + 1]
    /\ UNCHANGED <<status, raced>>

\* ~SharedPtr() / Reset() on a strong handle of t
ReleaseStrongBegin(t) ==
    /\ Begin(t, "StrongTestOne") /\ thr[t].strong >= 1
    /\ thr' = [thr EXCEPT ![t].pc = "StrongTestOne", ![t].ops = @ + 1,
                          ![t].strong = @ - 1]

\* block_->GetStrongCounter() == 1 && ...
StrongTestOne(t) ==
    /\ At(t, "StrongTestOne")
    /\ thr' = [thr EXCEPT ![t].pc = IF cb.strong_counter = 1
                                    THEN "StrongTestNoWeak"
                                    ELSE "StrongDecLoad"]
    /\ cb' = Touched(cb)
    /\ UNCHANGED <<status, raced>>

\* ... && block_->GetWeakCounter() == 0
StrongTestNoWeak(t) ==
    /\ At(t, "StrongTestNoWeak")
    /\ thr' = [thr EXCEPT ![t].pc = IF cb.weak_counter = 0
                                    THEN "StrongDeleteLast"
                                    ELSE "StrongDecLoad"]
    /\ cb' = Touched(cb)
    /\ UNCHANGED <<status, raced>>

\* block_->DeletePointer() of the first branch
StrongDeleteLast(t) ==
    /\ At(t, "StrongDeleteLast")
    /\ cb' = [Touched(cb) EXCEPT !.nDeletePointer = @ + 1,
                                 !.obj = "destroyed"]
    /\ thr' = [thr EXCEPT ![t].pc = "StrongDeleteBlock"]
    /\ UNCHANGED <<status, raced>>

\* delete block_; return
StrongDeleteBlock(t) ==
    /\ At(t, "StrongDeleteBlock")
    /\ cb' = [Touched(cb) EXCEPT !.state = "freed", !.nDeleteBlock = @ + 1]
    /\ thr' = [thr EXCEPT ![t].pc = "idle"]
    /\ UNCHANGED <<status, raced>>

\* --strong_counter: the load
StrongDecLoad(t) ==
    /\ At(t, "StrongDecLoad")
    /\ thr' = [thr EXCEPT ![t].pc = "StrongDecStore",
                          ![t].tmp = cb.strong_counter]
    /\ cb' = Touched(cb)
    /\ UNCHANGED <<status, raced>>

\* --strong_counter: the store
StrongDecStore(t) ==
    /\ At(t, "StrongDecStore")
    /\ cb' = [Touched(cb) EXCEPT !.strong_counter = thr[t].tmp - 1]
    /\ thr' = [thr EXCEPT ![t].pc = "StrongTestZero"]
    /\ UNCHANGED <<status, raced>>

\* block_->GetStrongCounter() <= 0
StrongTestZero(t) ==
    /\ At(t, "StrongTestZero")
    /\ thr' = [thr EXCEPT ![t].pc = IF cb.strong_counter <= 0
                                    THEN "StrongDeleteAfter"
                                    ELSE "idle"]
    /\ cb' = Touched(cb)
    /\ UNCHANGED <<status, raced>>

\* block_->DeletePointer() after the decrement
StrongDeleteAfter(t) ==
    /\ At(t, "StrongDeleteAfter")
    /\ cb' = [Touched(cb) EXCEPT !.nDeletePointer = @ + 1,
                                 !.obj = "destroyed"]
    /\ thr' = [thr EXCEPT ![t].pc = "idle"]
    /\ UNCHANGED <<status, raced>>

\* ~WeakPtr() / Reset() on a weak handle of t
ReleaseWeakBegin(t) ==
    /\ Begin(t, "WeakTestNoStrong") /\ thr[t].weak >= 1
    /\ thr' = [thr EXCEPT ![t].pc = "WeakTestNoStrong", ![t].ops = @ + 1,
                          ![t].weak = @ - 1]

\* block_->GetStrongCounter() == 0 && ...
WeakTestNoStrong(t) ==
    /\ At(t, "WeakTestNoStrong")
    /\ thr' = [thr EXCEPT ![t].pc = IF cb.strong_counter = 0
                                    THEN "WeakTestLast"
                                    ELSE "WeakDecLoad"]
    /\ cb' = Touched(cb)
    /\ UNCHANGED <<status, raced>>

\* ... && block_->GetWeakCounter() <= 1
WeakTestLast(t) ==
    /\ At(t, "WeakTestLast")
    /\ thr' = [thr EXCEPT ![t].pc = IF cb.weak_counter <= 1
                                    THEN "WeakDeleteBlock"
                                    ELSE "WeakDecLoad"]
    /\ cb' = Touched(cb)
    /\ UNCHANGED <<status, raced>>

\* delete block_; return
WeakDeleteBlock(t) ==
    /\ At(t, "WeakDeleteBlock")
    /\ cb' = [Touched(cb) EXCEPT !.state = "freed", !.nDeleteBlock = @ + 1]
    /\ thr' = [thr EXCEPT ![t].pc = "idle"]
    /\ UNCHANGED <<status, raced>>

\* --weak_counter: the load
WeakDecLoad(t) ==
    /\ At(t, "WeakDecLoad")
    /\ thr' = [thr EXCEPT ![t].pc = "WeakDecStore",
                          ![t].tmp = cb.weak_counter]
    /\ cb' = Touched(cb)
    /\ UNCHANGED <<status, raced>>

\* fault: the decrement waits until no other thread is inside an operation
WeakDecStoreLocked(t) ==
    /\ At(t, "WeakDecStore")
    /\ \A u \in Threads \ {t} : thr[u].pc = "idle"
    /\ cb' = [Touched(cb) EXCEPT !.weak_counter = thr[t].tmp - 1]
    /\ thr' = [thr EXCEPT ![t].pc = "idle"]
    /\ UNCHANGED <<status, raced>>

\* --weak_counter: the store
WeakDecStore(t) ==
    /\ At(t, "WeakDecStore")
    /\ cb' = [Touched(cb) EXCEPT !.weak_counter = thr[t].tmp - 1]
    /\ thr' = [thr EXCEPT ![t].pc = "idle"]
    /\ UNCHANGED <<status, raced>>

\* a step of t on the freed block faults
Fault(t) ==
    /\ status = "running"
    /\ thr[t].pc # "idle" /\ cb.state = "freed"
    /\ status' = "crashed"
    /\ UNCHANGED <<cb, thr, raced>>

\* ---------------------------------------------------------- specification
\* the record of the last call is dropped; the program state stays
Forget ==
    /\ last # Idle
    /\ last' = Idle
    /\ UNCHANGED <<sp, wp, heap, status, up, res, cb, thr, raced>>

\* the parts of the state that belong to the other specifications
SharedOnly == UNCHANGED <<up, res, cb, thr, raced>>
UniqueOnly == UNCHANGED <<sp, wp, heap, status, cb, thr, raced>>
RaceOnly == UNCHANGED <<sp, wp, heap, last, up, res>>

Next ==
    \/ Ready /\ SharedOnly /\ SharedPtrDefault
    \/ Ready /\ SharedOnly /\ \E e \in BOOLEAN, n \in BOOLEAN : SharedPtrFromRaw(e, n)
    \/ Ready /\ SharedOnly /\ \E e \in BOOLEAN : MakeShared(e)
    \/ Ready /\ SharedOnly /\ \E o \in Strongs : SharedPtrCopy(o)
    \/ Ready /\ SharedOnly /\ \E o \in Strongs : SharedPtrMove(o)
    \/ Ready /\ SharedOnly /\ \E o \in Strongs, q \in AliasPtrs : SharedPtrAlias(o, q)
    \/ Ready /\ SharedOnly /\ \E w \in Weaks : SharedPtrPromote(w)
    \/ Ready /\ SharedOnly /\ \E t \in Strongs, o \in Strongs, self \in BOOLEAN :
             SharedPtrAssignCopy(t, o, self)
    \/ Ready /\ SharedOnly /\ \E t \in Strongs, o \in Strongs, self \in BOOLEAN :
             SharedPtrAssignMove(t, o, self)
    \/ Ready /\ SharedOnly /\ \E t \in Strongs : SharedPtrDestroy(t)
    \/ Ready /\ SharedOnly /\ \E t \in Strongs : SharedPtrReset(t)
    \/ Ready /\ SharedOnly /\ \E t \in Strongs, e \in BOOLEAN, n \in BOOLEAN :
             SharedPtrResetPtr(t, e, n)
    \/ Ready /\ SharedOnly /\ \E t \in Strongs, o \in Strongs : SharedPtrSwap(t, o)
    \/ Ready /\ SharedOnly /\ WeakPtrDefault
    \/ Ready /\ SharedOnly /\ \E o \in Weaks : WeakPtrCopy(o)
    \/ Ready /\ SharedOnly /\ \E o \in Weaks : WeakPtrMove(o)
    \/ Ready /\ SharedOnly /\ \E s \in Strongs : WeakPtrDemote(s)
    \/ Ready /\ SharedOnly /\ \E t \in Weaks, o \in Weaks, self \in BOOLEAN :
             WeakPtrAssignCopy(t, o, self)
    \/ Ready /\ SharedOnly /\ \E t \in Weaks, o \in Weaks, self \in BOOLEAN :
             WeakPtrAssignMove(t, o, self)
    \/ Ready /\ SharedOnly /\ \E t \in Weaks : WeakPtrDestroy(t)
    \/ Ready /\ SharedOnly /\ \E t \in Weaks : WeakPtrReset(t)
    \/ Ready /\ SharedOnly /\ \E t \in Weaks, o \in Weaks : WeakPtrSwap(t, o)
    \/ Ready /\ SharedOnly /\ \E w \in Weaks : Lock(w)
    \/ Ready /\ SharedOnly /\ \E b \in BIds : SharedFromThis(b)
    \/ Ready /\ SharedOnly /\ \E b \in BIds : WeakFromThis(b)
    \/ Forget

Spec == Init /\ [][Next]_vars

\* the UniquePtr operations alone
UniqueNext ==
    \/ Ready /\ UniqueOnly /\ \E p \in RawPtrs : UniquePtrFromRaw(p)
    \/ Ready /\ UniqueOnly /\ \E o \in Uniques : UniquePtrMove(o)
    \/ Ready /\ UniqueOnly /\ \E t \in Uniques, o \in Uniques, self \in BOOLEAN :
             UniquePtrAssignMove(t, o, self)
    \/ Ready /\ UniqueOnly /\ \E t \in Uniques : UniquePtrAssignNull(t)
    \/ Ready /\ UniqueOnly /\ \E t \in Uniques : UniquePtrDestroy(t)
    \/ Ready /\ UniqueOnly /\ \E t \in Uniques : UniquePtrRelease(t)
    \/ Ready /\ UniqueOnly /\ \E t \in Uniques, p \in RawPtrs : UniquePtrReset(t, p)
    \/ Ready /\ UniqueOnly /\ \E t \in Uniques, o \in Uniques : UniquePtrSwap(t, o)
    \/ Forget

UniqueSpec == Init /\ [][UniqueNext]_vars

\* the steps of thread t inside an operation
ThreadStep(t) ==
    RaceOnly /\
        \/ IncStrongLoad(t) \/ IncStrongStore(t)
        \/ IncWeakLoad(t) \/ IncWeakStore(t)
        \/ StrongTestOne(t) \/ StrongTestNoWeak(t)
        \/ StrongDeleteLast(t) \/ StrongDeleteBlock(t)
        \/ StrongDecLoad(t) \/ StrongDecStore(t)
        \/ StrongTestZero(t) \/ StrongDeleteAfter(t)
        \/ WeakTestNoStrong(t) \/ WeakTestLast(t) \/ WeakDeleteBlock(t)
        \/ WeakDecLoad(t) \/ WeakDecStore(t)

\* threads interleave freely
RaceNext ==
    \/ RaceOnly /\ \E t \in Threads : CopyStrongBegin(t)
    \/ RaceOnly /\ \E t \in Threads : IncStrongLoad(t)
    \/ RaceOnly /\ \E t \in Threads : IncStrongStore(t)
    \/ RaceOnly /\ \E t \in Threads : CopyWeakBegin(t)
    \/ RaceOnly /\ \E t \in Threads : IncWeakLoad(t)
    \/ RaceOnly /\ \E t \in Threads : IncWeakStore(t)
    \/ RaceOnly /\ \E t \in Threads : ReleaseStrongBegin(t)
    \/ RaceOnly /\ \E t \in Threads : StrongTestOne(t)
    \/ RaceOnly /\ \E t \in Threads : StrongTestNoWeak(t)
    \/ RaceOnly /\ \E t \in Threads : StrongDeleteLast(t)
    \/ RaceOnly /\ \E t \in Threads : StrongDeleteBlock(t)
    \/ RaceOnly /\ \E t \in Threads : StrongDecLoad(t)
    \/ RaceOnly /\ \E t \in Threads : StrongDecStore(t)
    \/ RaceOnly /\ \E t \in Threads : StrongTestZero(t)
    \/ RaceOnly /\ \E t \in Threads : StrongDeleteAfter(t)
    \/ RaceOnly /\ \E t \in Threads : ReleaseWeakBegin(t)
    \/ RaceOnly /\ \E t \in Threads : WeakTestNoStrong(t)
    \/ RaceOnly /\ \E t \in Threads : WeakTestLast(t)
    \/ RaceOnly /\ \E t \in Threads : WeakDeleteBlock(t)
    \/ RaceOnly /\ \E t \in Threads : WeakDecLoad(t)
    \/ RaceOnly /\ \E t \in Threads : WeakDecStore(t)
    \/ RaceOnly /\ \E t \in Threads : Fault(t)

RaceSpec == RaceInit /\ [][RaceNext]_vars

\* ------------------------------------------------------------ measurements
\* the handles of bag B whose block_ is b
RefCount(B, b) ==
    LET S == {x \in BagToSet(B) : x.block_ = b}
    IN BagCardinality([x \in S |-> B[x]])

StrongRefs(b) == RefCount(sp, b)
ClientWeakRefs(b) == RefCount(wp, b)
\* weak_this fields of payloads that are alive and observe block b
InternalWeakRefs(b) ==
    Cardinality({c \in BIds : /\ heap[c].obj = "alive" /\ heap[c].esft
                              /\ heap[c].weak_this.block_ = b})
WeakRefs(b) == ClientWeakRefs(b) + InternalWeakRefs(b)
Allocated(b) == heap[b].state # "unalloc"
Called(name) == last.op = name

\* C1: every control block that is not freed has strong_counter equal to
\* the number of live strong handles on it and weak_counter equal to the
\* number of live weak handles on it, the payload's weak_this included.
CountersMatchHandles ==
    \A b \in BIds :
        heap[b].state = "live" =>
            /\ heap[b].strong_counter = StrongRefs(b)
            /\ heap[b].weak_counter = WeakRefs(b)

\* C1 witness: a block shared by two strong handles, a client weak handle
\* and its payload's weak_this, reached by a copy assignment.
CountersMatchHandlesWitness ==
    /\ Called("SharedPtrAssignCopy")
    /\ \E b \in BIds :
          /\ heap[b].state = "live" /\ heap[b].esft
          /\ StrongRefs(b) = 2 /\ ClientWeakRefs(b) = 1
          /\ InternalWeakRefs(b) = 1

\* C2: DeletePointer runs exactly once per block, in the step that takes
\* the last strong handle away from the block: not while a strong handle
\* is on the block, and not a second time afterwards.
PayloadDestroyedExactlyOnce ==
    \A b \in BIds :
        Allocated(b) =>
            /\ heap[b].nDeletePointer = IF StrongRefs(b) = 0 THEN 1 ELSE 0
            /\ heap[b].obj \in (IF StrongRefs(b) = 0
                                THEN {"destroyed", "none"}
                                ELSE {"alive", "none"})

\* C2 witness: the last strong handle was reassigned away while a weak
\* handle stays on the block; its payload has been destroyed once.
PayloadDestroyedWitness ==
    /\ Called("SharedPtrAssignMove") /\ last.res = "ok"
    /\ last.x.block_ # 0
    /\ heap[last.x.block_].state = "live"
    /\ heap[last.x.block_].obj = "destroyed"
    /\ heap[last.x.block_].nDeletePointer = 1
    /\ ClientWeakRefs(last.x.block_) = 1

\* C3: a block is deleted exactly once, in the step after which no strong
\* and no weak handle is on it: not while a handle of either kind is on
\* it, and it does not stay allocated without handles.
BlockFreedExactlyOnce ==
    \A b \in BIds :
        Allocated(b) =>
            /\ heap[b].nDeleteBlock =
                  IF StrongRefs(b) = 0 /\ WeakRefs(b) = 0 THEN 1 ELSE 0
            /\ (heap[b].state = "freed") = (heap[b].nDeleteBlock = 1)

\* C3 witness: the block was freed by the release of its last weak handle
BlockFreedWitness ==
    /\ Called("WeakPtrReset")
    /\ last.x.block_ # 0
    /\ heap[last.x.block_].state = "freed"
    /\ heap[last.x.block_].nDeleteBlock = 1

\* C4: while weak handles but no strong handle are on a block, the payload
\* is destroyed and the block is still allocated; each such weak handle is
\* Expired, has UseCount 0 and Lock gives the empty handle without touching
\* the heap.  A freed block's payload is never still alive.
WeakOutlivesPayload ==
    /\ \A b \in BIds :
          Allocated(b) /\ StrongRefs(b) = 0 /\ WeakRefs(b) > 0 =>
              /\ heap[b].state = "live"
              /\ heap[b].obj # "alive"
              /\ heap[b].nDeletePointer = 1
    /\ \A w \in Weaks :
          w.block_ # 0 /\ StrongRefs(w.block_) = 0 =>
              /\ heap[w.block_].state = "live"
              /\ Expired(heap, w)
              /\ WeakUseCount(heap, w) = 0
              /\ LockOutcomes(heap, w) = {<<"empty", One(EmptyHandle), heap>>}
    /\ \A b \in BIds : heap[b].state = "freed" => heap[b].obj # "alive"

\* C4 witness: the last strong handle has just been destroyed under two
\* weak handles; the payload is gone and the block is not.
WeakOutlivesPayloadWitness ==
    /\ Called("SharedPtrDestroy")
    /\ last.x.block_ # 0
    /\ ClientWeakRefs(last.x.block_) = 2
    /\ heap[last.x.block_].obj = "destroyed"
    /\ heap[last.x.block_].state = "live"

\* C9: a MakeShared family makes one allocation; its payload is never
\* deallocated apart from the block, the block is deleted at most once,
\* and once no strong and no weak handle of the client is on it the payload
\* has been destroyed in place once and the block deleted once.
MakeSharedOneAllocation ==
    \A b \in BIds :
        heap[b].kind = "holder" =>
            /\ heap[b].nAlloc = 1
            /\ heap[b].nObjFree = 0
            /\ heap[b].nDeleteBlock <= 1
            /\ (StrongRefs(b) = 0 /\ ClientWeakRefs(b) = 0 =>
                   /\ heap[b].nDeletePointer = 1
                   /\ heap[b].obj = "destroyed"
                   /\ heap[b].nObjFree + heap[b].nDeleteBlock = 1)

\* C9 witness: a self-observing MakeShared payload whose block was freed
\* by weak_this inside the payload's teardown, on the last strong release
MakeSharedOneAllocationWitness ==
    /\ Called("SharedPtrReset")
    /\ last.x.block_ # 0
    /\ heap[last.x.block_].kind = "holder"
    /\ heap[last.x.block_].esft
    /\ heap[last.x.block_].state = "freed"

\* ------------------------------------------------------- claims on calls
\* the call recorded by this step was name
Calls(name) == last'.op = name
OneMoreStrong(b) == heap' = [heap EXCEPT ![b].strong_counter = @ + 1]

\* C5: Lock() on a weak handle that is empty or whose block has
\* strong_counter 0 returns the empty strong handle and changes nothing
\* else; on a block with strong_counter n > 0 it returns a strong handle
\* with the weak handle's ptr_ and block_, strong_counter becomes n + 1 and
\* weak_counter and everything else stay.
LockStep ==
    Calls("Lock") =>
        LET w == last'.x
            b == w.block_
        IN /\ wp' = wp /\ status' = status
           /\ IF b = 0 \/ heap[b].strong_counter = 0
              THEN /\ last'.res = "empty"
                   /\ sp' = sp (+) One(EmptyHandle)
                   /\ UseCount(heap', EmptyHandle) = 0
                   /\ heap' = heap
              ELSE /\ last'.res = "ok"
                   /\ sp' = sp (+) One(Handle(w.ptr_, b))
                   /\ heap'[b].strong_counter = heap[b].strong_counter + 1
                   /\ heap'[b].weak_counter = heap[b].weak_counter
                   /\ OneMoreStrong(b)

LockContract == [][LockStep]_vars

\* C5 witness: Lock() on an aliased weak handle of a block with two strong
\* handles has returned a third one
LockContractWitness ==
    /\ Called("Lock") /\ last.res = "ok"
    /\ last.x.ptr_ = FieldAddr
    /\ heap[last.x.block_].strong_counter = 3
    /\ CopiesIn(Handle(FieldAddr, last.x.block_), sp) >= 1

\* the other case of C5: Lock() on an expired weak handle gave the empty
\* handle
LockExpiredReached ==
    /\ Called("Lock") /\ last.res = "empty"
    /\ last.x.block_ # 0

\* C6: promotion from a weak handle whose block has strong_counter 0 throws
\* BadWeakPtr, makes no strong handle and leaves the counters and the weak
\* handle as they were; with strong_counter > 0 it succeeds and adds
\* exactly 1 to strong_counter.
PromoteStep ==
    Calls("SharedPtrPromote") /\ last'.x.block_ # 0 =>
        LET w == last'.x
            b == w.block_
        IN /\ wp' = wp /\ status' = status
           /\ IF heap[b].strong_counter = 0
              THEN /\ last'.res = "BadWeakPtr"
                   /\ sp' = sp
                   /\ heap' = heap
              ELSE /\ last'.res = "ok"
                   /\ sp' = sp (+) One(Handle(w.ptr_, b))
                   /\ heap'[b].strong_counter = heap[b].strong_counter + 1
                   /\ OneMoreStrong(b)

PromoteContract == [][PromoteStep]_vars

\* C6 witness: a promotion from an expired weak handle has thrown
PromoteContractWitness ==
    /\ Called("SharedPtrPromote") /\ last.res = "BadWeakPtr"
    /\ last.x.block_ # 0
    /\ heap[last.x.block_].strong_counter = 0
    /\ heap[last.x.block_].state = "live"

\* C7: SharedPtr(H1, Q) from a non-empty H1 yields a handle with ptr_ Q on
\* H1's block and adds exactly 1 to its strong_counter; as long as any
\* strong handle (the aliasing one included) is on a block, the payload is
\* not destroyed and the handle's UseCount is the number of live strong
\* handles on the block; releasing the aliasing handle as the last strong
\* handle destroys the payload.
AliasStep ==
    /\ Calls("SharedPtrAlias") /\ last'.x.block_ # 0 =>
          /\ sp' = sp (+) One(Handle(last'.y, last'.x.block_))
          /\ OneMoreStrong(last'.x.block_)
          /\ wp' = wp
    /\ /\ (Calls("SharedPtrDestroy") \/ Calls("SharedPtrReset"))
       /\ last'.x.block_ # 0 /\ last'.x.ptr_ = FieldAddr
       /\ StrongRefs(last'.x.block_) = 1
       => /\ heap'[last'.x.block_].nDeletePointer = 1
          /\ heap'[last'.x.block_].obj # "alive"

AliasKeepsAlive ==
    \A x \in Strongs :
        x.block_ # 0 =>
            /\ heap[x.block_].state = "live"
            /\ heap[x.block_].obj # "destroyed"
            /\ heap[x.block_].nDeletePointer = 0
            /\ UseCount(heap, x) = StrongRefs(x.block_)

AliasContract == []AliasKeepsAlive /\ [][AliasStep]_vars

\* C7 witness: the handle the payload was adopted by has been destroyed
\* and the aliasing handle alone keeps the payload alive
AliasContractWitness ==
    /\ Called("SharedPtrDestroy")
    /\ last.x.block_ # 0 /\ last.x.ptr_ = ObjAddr(last.x.block_)
    /\ sp = One(Handle(FieldAddr, last.x.block_))
    /\ heap[last.x.block_].obj = "alive"

\* the end of C7's story: the aliasing handle, the last one, was released
AliasLastReleased ==
    /\ Called("SharedPtrDestroy")
    /\ last.x.block_ # 0 /\ last.x.ptr_ = FieldAddr
    /\ heap[last.x.block_].obj = "destroyed"

\* C8: for a self-observing payload adopted by a constructor or made by
\* MakeShared, with k >= 1 strong handles on its block b, SharedFromThis()
\* returns a strong handle on b whose ptr_ is the payload's address, the
\* same as the ptr_ of the non-aliasing handles of b, and then every
\* strong handle of b has UseCount k + 1; WeakFromThis() returns a weak
\* handle on b with the payload's address whose UseCount is k.
SelfObservationStep ==
    /\ /\ Calls("SharedFromThis")
       /\ heap[last'.y].via = "ctor" /\ StrongRefs(last'.y) >= 1
       => LET b == last'.y
              h2 == Handle(ObjAddr(b), b)
          IN /\ last'.res = "ok"
             /\ sp' = sp (+) One(h2) /\ wp' = wp
             /\ \A h \in Strongs :
                   h.block_ = b /\ h.ptr_ # FieldAddr => Get(h2) = Get(h)
             /\ \A h \in BagToSet(sp') :
                   h.block_ = b => UseCount(heap', h) = StrongRefs(b) + 1
    /\ /\ Calls("WeakFromThis")
       /\ heap[last'.y].via = "ctor" /\ StrongRefs(last'.y) >= 1
       => LET b == last'.y
              w2 == Handle(ObjAddr(b), b)
          IN /\ wp' = wp (+) One(w2) /\ sp' = sp
             /\ WeakUseCount(heap', w2) = StrongRefs(b)

SelfObservationContract == [][SelfObservationStep]_vars

\* C8 witness: SharedFromThis() on a MakeShared payload with two owners
\* has returned the third
SelfObservationWitness ==
    /\ Called("SharedFromThis") /\ last.res = "ok"
    /\ heap[last.y].kind = "holder"
    /\ heap[last.y].strong_counter = 3
    /\ CopiesIn(Handle(ObjAddr(last.y), last.y), sp) >= 2

\* the weak half of C8
WeakFromThisReached ==
    /\ Called("WeakFromThis")
    /\ heap[last.y].via = "ctor"
    /\ CopiesIn(Handle(ObjAddr(last.y), last.y), wp) >= 1

\* C10: moves.  What the two handles hold afterwards, for every move into
\* a distinct target: the target has the source's former ptr_ and block_,
\* the source is empty (UseCount 0).
StrongMoved(t, o) == sp' = Put(Put(sp, t, o), o, EmptyHandle) /\ wp' = wp
WeakMoved(t, o) == wp' = Put(Put(wp, t, o), o, EmptyHandle) /\ sp' = sp
OthersKept(tb) == \A c \in BIds : c # tb => heap'[c] = heap[c]
CountersKept(b) ==
    b # 0 => /\ heap'[b].strong_counter = heap[b].strong_counter
             /\ heap'[b].weak_counter = heap[b].weak_counter
\* one release of a strong / weak reference to block tb
StrongReleased(tb) ==
    tb # 0 => \/ heap'[tb].state = "freed"
              \/ heap'[tb].strong_counter = heap[tb].strong_counter - 1
WeakReleased(tb) ==
    tb # 0 => \/ heap'[tb].state = "freed"
              \/ /\ heap'[tb].weak_counter = heap[tb].weak_counter - 1
                 /\ heap'[tb].strong_counter = heap[tb].strong_counter

MoveConstructStep ==
    /\ Calls("SharedPtrMove") =>
          /\ sp' = Put(sp, last'.y, EmptyHandle) (+) One(last'.y)
          /\ UseCount(heap', EmptyHandle) = 0
          /\ wp' = wp /\ heap' = heap
    /\ Calls("WeakPtrMove") =>
          /\ wp' = Put(wp, last'.y, EmptyHandle) (+) One(last'.y)
          /\ sp' = sp /\ heap' = heap

\* C10 as claimed: a move assignment too leaves both counters of the
\* transferred block as they were, and changes counters only of the block
\* the target was on before.
MoveAssignStepClaimed ==
    /\ Calls("SharedPtrAssignMove") /\ last'.res = "ok" =>
          /\ StrongMoved(last'.x, last'.y)
          /\ CountersKept(last'.y.block_)
          /\ StrongReleased(last'.x.block_)
          /\ OthersKept(last'.x.block_)
    /\ Calls("WeakPtrAssignMove") /\ last'.res = "ok" =>
          /\ WeakMoved(last'.x, last'.y)
          /\ CountersKept(last'.y.block_)
          /\ WeakReleased(last'.x.block_)
          /\ OthersKept(last'.x.block_)

MovesKeepCountersClaimed == [][MoveConstructStep /\ MoveAssignStepClaimed]_vars

\* C10 amended: the transferred block keeps its counters unless the target
\* was on that same block before; then the release of the target's old
\* reference takes exactly 1 from the counter of the handle's kind.
MoveAssignStep ==
    /\ Calls("SharedPtrAssignMove") /\ last'.res = "ok" =>
          LET tb == last'.x.block_
              b == last'.y.block_
          IN /\ StrongMoved(last'.x, last'.y)
             /\ StrongReleased(tb)
             /\ OthersKept(tb)
             /\ IF tb # b THEN CountersKept(b)
                ELSE b # 0 =>
                   /\ heap'[b].strong_counter = heap[b].strong_counter - 1
                   /\ heap'[b].weak_counter = heap[b].weak_counter
    /\ Calls("WeakPtrAssignMove") /\ last'.res = "ok" =>
          LET tb == last'.x.block_
              b == last'.y.block_
          IN /\ WeakMoved(last'.x, last'.y)
             /\ WeakReleased(tb)
             /\ OthersKept(tb)
             /\ IF tb # b THEN CountersKept(b)
                ELSE b # 0 =>
                   /\ heap'[b].weak_counter = heap[b].weak_counter - 1
                   /\ heap'[b].strong_counter = heap[b].strong_counter

MovesKeepCounters == [][MoveConstructStep /\ MoveAssignStep]_vars

\* C10 witness: a strong handle was move-assigned from a handle of
\* another block; the target's old block lost its last owner and the
\* transferred block still has its two
MovesKeepCountersWitness ==
    /\ Called("SharedPtrAssignMove") /\ last.res = "ok"
    /\ last.x.block_ # 0 /\ last.y.block_ # 0
    /\ last.x.block_ # last.y.block_
    /\ heap[last.x.block_].obj = "destroyed"
    /\ heap[last.y.block_].strong_counter = 2
    /\ CopiesIn(EmptyHandle, sp) = 1

\* the case that C10 as claimed misses: target and source on one block
MoveWithinBlockReached ==
    /\ Called("WeakPtrAssignMove") /\ last.res = "ok"
    /\ last.x.block_ # 0 /\ last.x.block_ = last.y.block_

\* ------------------------------------------------- claims on weak_this
\* C12: weak_this is no owner.  Adoption of a raw pointer or MakeShared of a
\* self-observing payload leaves strong_counter 1 (UseCount 1) with
\* weak_this installed as the one weak reference.  The step that takes the
\* last strong handle from such a block destroys the payload; without a
\* weak handle of the client the block is freed in that step, once, by
\* weak_this's destructor (which sees strong 0, weak 1 and deletes without
\* counting down), else it stays with weak_counter the client's handles.  A
\* freed block is never referenced or changed again.
WeakThisInstallStep ==
    (Calls("SharedPtrFromRaw") \/ Calls("MakeShared")) /\ heap'[last'.y].esft =>
        LET b == last'.y
            x == Handle(ObjAddr(b), b)
        IN /\ sp' = sp (+) One(x)
           /\ heap'[b].strong_counter = 1
           /\ UseCount(heap', x) = 1
           /\ heap'[b].weak_counter = 1
           /\ heap'[b].weak_this = x

WeakThisReleaseStep ==
    \A b \in BIds :
        /\ heap[b].via = "ctor" /\ heap[b].state = "live"
        /\ StrongRefs(b) = 1 /\ RefCount(sp', b) = 0
        => /\ heap'[b].obj = "destroyed"
           /\ heap'[b].nDeletePointer = 1
           /\ heap'[b].weak_this = EmptyWeakField
           /\ heap'[b].strong_counter = 0
           /\ IF ClientWeakRefs(b) = 0
              THEN /\ heap'[b].state = "freed"
                   /\ heap'[b].nDeleteBlock = 1
                   /\ heap'[b].weak_counter = 1
              ELSE /\ heap'[b].state = "live"
                   /\ heap'[b].nDeleteBlock = 0
                   /\ heap'[b].weak_counter = ClientWeakRefs(b)

FreedBlockLeftAlone ==
    \A b \in BIds : heap[b].state = "freed" => heap'[b] = heap[b]

NoHandleOnFreedBlock ==
    /\ \A x \in Strongs \cup Weaks :
          x.block_ # 0 => heap[x.block_].state = "live"
    /\ \A b \in BIds :
          heap[b].esft /\ heap[b].obj = "alive" /\ heap[b].weak_this.block_ # 0
              => heap[heap[b].weak_this.block_].state = "live"
    /\ \A b \in BIds :
          heap[b].esft /\ StrongRefs(b) = 0 => heap[b].obj # "alive"

WeakThisNotOwner ==
    /\ []NoHandleOnFreedBlock
    /\ [][WeakThisInstallStep /\ WeakThisReleaseStep /\ FreedBlockLeftAlone]_vars

\* C12 witness: the last strong handle of an adopted self-observing payload
\* was destroyed with no weak handle of the client; the block is freed
WeakThisNotOwnerWitness ==
    /\ Called("SharedPtrDestroy")
    /\ last.x.block_ # 0
    /\ heap[last.x.block_].kind = "pointer"
    /\ heap[last.x.block_].via = "ctor"
    /\ heap[last.x.block_].state = "freed"
    /\ heap[last.x.block_].strong_counter = 0
    /\ heap[last.x.block_].weak_counter = 1

\* the other case of C12: a weak handle of the client keeps the block
WeakThisGoneBlockKept ==
    /\ Called("SharedPtrReset")
    /\ last.x.block_ # 0
    /\ heap[last.x.block_].via = "ctor"
    /\ heap[last.x.block_].obj = "destroyed"
    /\ heap[last.x.block_].state = "live"
    /\ heap[last.x.block_].weak_counter = 1

\* C13 as claimed: every operation that establishes fresh ownership of a
\* self-observing payload (the adopting constructor, MakeShared, and
\* Reset(ptr)) leaves the payload's weak_this on the handle's new block, so
\* that SharedFromThis() then succeeds with a handle on that block.
WeakThisInstalledStep ==
    /\ (Calls("SharedPtrFromRaw") \/ Calls("MakeShared")
            \/ Calls("SharedPtrResetPtr")) /\ heap'[last'.y].esft =>
          LET b == last'.y
              x == Handle(ObjAddr(b), b)
          IN /\ BagIn(x, sp')
             /\ heap'[b].weak_this = x
             /\ PromoteOutcomes(heap', heap'[b].weak_this) =
                   { <<"ok", One(x), IncrementStrongCounter(heap', b)>> }
    /\ Calls("SharedFromThis") /\ StrongRefs(last'.y) >= 1 =>
          /\ last'.res = "ok"
          /\ sp' = sp (+) One(Handle(ObjAddr(last'.y), last'.y))

EveryOwnershipInstallsWeakThis == [][WeakThisInstalledStep]_vars

\* C14 as claimed: a promotion from a weak handle without a block, as
\* SharedFromThis() makes from a weak_this that was never installed, throws
\* BadWeakPtr and changes nothing; every promotion ends "ok" or "BadWeakPtr".
PromoteEmptyStep ==
    Calls("SharedPtrPromote") \/ Calls("SharedFromThis") =>
        /\ last'.res \in {"ok", "BadWeakPtr"}
        /\ last'.x.block_ = 0 =>
              /\ last'.res = "BadWeakPtr"
              /\ sp' = sp /\ wp' = wp /\ heap' = heap
              /\ status' = status

PromoteEmptyThrows == [][PromoteEmptyStep]_vars

\* C15: a weak-handle operation other than Lock() changes no strong_counter,
\* destroys no payload and touches no strong handle.  A weak copy and a
\* demotion add exactly 1 to weak_counter of the source's block; a weak
\* release (destruction, Reset, the target of an assignment) takes exactly
\* 1 from weak_counter of the handle's block, or frees the block when the
\* handle was its last reference; nothing else in the heap changes.
WeakOps ==
    {"WeakPtrDefault", "WeakPtrCopy", "WeakPtrMove", "WeakPtrDemote",
     "WeakPtrAssignCopy", "WeakPtrAssignMove", "WeakPtrDestroy",
     "WeakPtrReset", "WeakPtrSwap"}

LastReference(b) == StrongRefs(b) = 0 /\ WeakRefs(b) = 1
OneMoreWeak(h, b) ==
    IF b = 0 THEN h ELSE [h EXCEPT ![b].weak_counter = @ + 1]
OneWeakLess(h, b) ==
    IF b = 0 THEN h
    ELSE IF LastReference(b)
         THEN [h EXCEPT ![b].state = "freed", ![b].nDeleteBlock = 1]
         ELSE [h EXCEPT ![b].weak_counter = @ - 1]

WeakOpStep ==
    last'.op \in WeakOps =>
        /\ sp' = sp /\ status' = status
        /\ \A b \in BIds :
              /\ heap'[b].strong_counter = heap[b].strong_counter
              /\ heap'[b].nDeletePointer = heap[b].nDeletePointer
              /\ heap'[b].obj = heap[b].obj
              /\ heap'[b].nObjFree = heap[b].nObjFree
        /\ heap' =
              CASE last'.op \in {"WeakPtrCopy", "WeakPtrDemote"} ->
                      OneMoreWeak(heap, last'.x.block_)
                [] last'.op \in {"WeakPtrDestroy", "WeakPtrReset"} ->
                      OneWeakLess(heap, last'.x.block_)
                [] last'.op = "WeakPtrAssignMove" ->
                      OneWeakLess(heap, last'.x.block_)
                [] last'.op = "WeakPtrAssignCopy" /\ last'.res = "ok" ->
                      OneMoreWeak(OneWeakLess(heap, last'.x.block_),
                                  last'.y.block_)
                [] OTHER -> heap

WeakOpsFrame == [][WeakOpStep]_vars

\* C15 witness: a demotion has made the second weak handle of a block with
\* one strong handle
WeakOpsFrameWitness ==
    /\ Called("WeakPtrDemote")
    /\ last.x.block_ # 0
    /\ heap[last.x.block_].strong_counter = 1
    /\ heap[last.x.block_].weak_counter = 2
    /\ ClientWeakRefs(last.x.block_) = 2

\* more of C15: a weak release that counted down, and one that freed
WeakReleaseCounted ==
    /\ Called("WeakPtrDestroy")
    /\ last.x.block_ # 0
    /\ heap[last.x.block_].state = "live"
    /\ heap[last.x.block_].obj = "alive"

WeakAssignFreed ==
    /\ Called("WeakPtrAssignCopy") /\ last.res = "ok"
    /\ last.x.block_ # 0
    /\ heap[last.x.block_].state = "freed"

\* C16 as claimed: a strong handle has no block iff it is empty (tests
\* false, Get() null): none has a block while testing false, none tests
\* true without a block and with UseCount 0.
BlockIffNonEmpty ==
    \A x \in Strongs :
        /\ (x.block_ = 0) = ~Bool(x)
        /\ (x.block_ = 0) = (Get(x) = Null)
        /\ ~(Bool(x) /\ x.block_ = 0 /\ UseCount(heap, x) = 0)

\* C16 amended: a strong handle has no block iff its UseCount is 0, and it
\* tests true iff Get() is not null.  "No block iff Get() is null" is kept
\* by every operation but two: the adoption of a null pointer (constructor
\* or Reset(ptr)) gives a handle with a block that tests false, and the
\* aliasing constructor gives the pointer it is passed whatever the block
\* (from an empty handle: a handle that tests true with no block and
\* UseCount 0).
PointerAndBlockAgree(x) == (x.block_ = 0) = (Get(x) = Null)

BlockIffUseCount ==
    \A x \in Strongs :
        /\ (x.block_ = 0) = (UseCount(heap, x) = 0)
        /\ Bool(x) = (Get(x) # Null)

NullAdopted ==
    /\ Calls("SharedPtrFromRaw") \/ Calls("SharedPtrResetPtr")
    /\ heap'[last'.y].obj = "none"

PointerAndBlockStep ==
    /\ /\ \A x \in Strongs \cup Weaks : PointerAndBlockAgree(x)
       /\ ~NullAdopted /\ ~Calls("SharedPtrAlias")
       => \A x \in BagToSet(sp') \cup BagToSet(wp') : PointerAndBlockAgree(x)
    /\ NullAdopted =>
          LET x == Handle(Null, last'.y)
          IN /\ BagIn(x, sp')
             /\ ~Bool(x) /\ UseCount(heap', x) = 1
    /\ Calls("SharedPtrAlias") /\ last'.x.block_ = 0 =>
          LET x == Handle(last'.y, 0)
          IN /\ sp' = sp (+) One(x)
             /\ Bool(x) = (last'.y # Null) /\ UseCount(heap', x) = 0
             /\ heap' = heap

BlockIffOwner == []BlockIffUseCount /\ [][PointerAndBlockStep]_vars

\* C16 witness: an aliasing construction from an empty handle beside a
\* handle that adopted a null pointer
BlockIffOwnerWitness ==
    /\ Called("SharedPtrAlias")
    /\ last.x = EmptyHandle
    /\ BagIn(Handle(FieldAddr, 0), sp)
    /\ \E b \in BIds : BagIn(Handle(Null, b), sp) /\ heap[b].obj = "none"

\* C19 as claimed: a self-assignment, by copy or by move, of a strong or a
\* weak handle changes no handle, no counter, no payload and no block.
SelfAssignStep ==
    /\ last'.op \in {"SharedPtrAssignCopy", "SharedPtrAssignMove",
                     "WeakPtrAssignCopy", "WeakPtrAssignMove"}
    /\ last'.res = "self"
    => /\ sp' = sp /\ wp' = wp
       /\ heap' = heap
       /\ status' = status

SelfAssignmentIsNoOp == [][SelfAssignStep]_vars

\* ------------------------------------------------------ claims on UniquePtr
\* C11: Release() returns the pointer the handle held and leaves the handle
\* holding null without invoking the deletion policy; and no later
\* operation gives a released resource to the deletion policy: it stays
\* undeleted and no handle holds it.
ReleaseStep ==
    Calls("UniquePtrRelease") =>
        /\ last'.ret = last'.x
        /\ up' = Put(up, last'.x, Null)
        /\ ~last'.called
        /\ \A r \in RIds : /\ res'[r].nDelete = res[r].nDelete
                           /\ res'[r].state = res[r].state

ReleasedNeverDeleted ==
    \A r \in RIds :
        res[r].released =>
            /\ res[r].nDelete = 0
            /\ res[r].state = "live"
            /\ ~BagIn(r, up)

ReleaseContract == []ReleasedNeverDeleted /\ [][ReleaseStep]_vars

\* C11 witness: after a Release() every handle, the releasing one among
\* them, has been destroyed, and the released resource was never deleted
ReleaseContractWitness ==
    /\ Called("UniquePtrDestroy")
    /\ up = EmptyBag
    /\ \E r \in RIds : res[r].released /\ res[r].nDelete = 0

\* C18 as claimed: when Reset(new) gives the held resource to the deletion
\* policy, the handle still holds that resource.
ResetStepClaimed ==
    Calls("UniquePtrReset") /\ last'.x # Null =>
        /\ last'.called
        /\ last'.del = last'.x
        /\ last'.seen = last'.x

ResetDeletesBeforeAdopting == [][ResetStepClaimed]_vars

\* C18 amended: Reset(new) stores new in the handle and then gives the
\* pointer held before to the deletion policy, once; while the policy runs,
\* Get() is new already.
ResetStep ==
    Calls("UniquePtrReset") =>
        /\ last'.called
        /\ last'.del = last'.x
        /\ last'.seen = last'.y
        /\ up' = Put(up, last'.x, last'.y)
        /\ last'.x # Null =>
              res'[last'.x].nDelete = res[last'.x].nDelete + 1

ResetStoresBeforeDeleting == [][ResetStep]_vars

\* C18 witness: Reset(new) on a handle that held a resource
ResetStoresBeforeDeletingWitness ==
    /\ Called("UniquePtrReset")
    /\ last.x # Null /\ last.y # Null
    /\ BagIn(last.y, up)
    /\ res[last.x].state = "deleted"

\* C20: every adopted resource is held by at most one handle; it has been
\* given to the deletion policy never while a handle holds it or after
\* Release() handed it back, and exactly once otherwise.
UniqueOwnership ==
    \A r \in RIds :
        res[r].state # "unalloc" =>
            /\ CopiesIn(r, up) <= 1
            /\ res[r].nDelete =
                  IF BagIn(r, up) \/ res[r].released THEN 0 ELSE 1
            /\ (res[r].state = "deleted") = (res[r].nDelete = 1)

\* C20 witness: every resource was adopted, all handles are destroyed, and
\* each resource was deleted once
UniqueOwnershipWitness ==
    /\ Called("UniquePtrDestroy")
    /\ up = EmptyBag
    /\ \A r \in RIds : res[r].state = "deleted" /\ res[r].nDelete = 1

\* -------------------------------------------------------- claims on races
AllIdle == \A t \in Threads : thr[t].pc = "idle"

\* what single-threaded use guarantees, between operations
Guarantees ==
    /\ ~cb.usedAfterFree
    /\ cb.nDeleteBlock <= 1
    /\ (cb.state = "freed") = (HeldStrong + HeldWeak = 0)
    /\ cb.nDeletePointer = (IF HeldStrong = 0 THEN 1 ELSE 0)
    /\ (cb.obj = "alive") = (HeldStrong > 0)
    /\ cb.state = "live" => /\ cb.strong_counter = HeldStrong
                            /\ cb.weak_counter = HeldWeak

\* C17: nothing in the counters makes a thread wait for another: a thread
\* inside an operation can take its next step in every state, whatever
\* lines the other threads are at.  The guarantees hold between operations
\* as long as no operation began while another was under way, so it takes
\* an interleaving to break them; the witness is such an interleaving.
NoSynchronization ==
    \A t \in Threads :
        status = "running" /\ thr[t].pc # "idle" => ENABLED ThreadStep(t)

SerialRunsKeepGuarantees == ~raced /\ AllIdle => Guarantees

RacesNotExcluded == NoSynchronization /\ SerialRunsKeepGuarantees

\* C17 witness: the last strong and the last weak handle were released by
\* two threads, both skipped the free branch, and the block with both
\* counters 0 and no handle is never freed
RacesNotExcludedWitness ==
    /\ raced /\ AllIdle /\ status = "running"
    /\ HeldStrong + HeldWeak = 0
    /\ cb.state = "live" /\ cb.nDeleteBlock = 0
    /\ cb.obj = "destroyed"
    /\ cb.strong_counter = 0 /\ cb.weak_counter = 0

\* more of C17: a lost update leaves the payload destroyed under a live
\* strong handle, or alive without any
PayloadDestroyedUnderOwner ==
    /\ raced /\ AllIdle /\ status = "running"
    /\ HeldStrong >= 1
    /\ cb.obj = "destroyed"

PayloadNeverDestroyed ==
    /\ raced /\ AllIdle /\ status = "running"
    /\ HeldStrong = 0 /\ HeldWeak = 0
    /\ \A t \in Threads : thr[t].ops >= 1
    /\ cb.obj = "alive" /\ cb.nDeletePointer = 0

====
